---- MODULE Spec2Model ----
(***************************************************************************)
(* State-machine model of the log retrieval server                         *)
(* (src/log-retrieval-server/src/log_retrieval_server.py):                 *)
(*   - LogRetrievalServer.read_log_file, the backward chunked scan with    *)
(*     its path check, existence check and filter;                         *)
(*   - LogRequestHandler.do_GET, the HTTP gateway in front of it.          *)
(*                                                                         *)
(* Python values are modelled as follows.  A str is a TLA+ string, a bytes *)
(* object is a sequence of byte values (0..255), a list is a sequence.     *)
(* An optional value (None or v) is the tuple <<>> or <<v>>.               *)
(***************************************************************************)
EXTENDS Integers, Sequences, FiniteSets, TLC

\* ------------------------------------------------------------------ bounds

\* Longest file content, in bytes, that the scan is explored on.
MaxLen == 5

\* The chunk size of the backward scan.  The source fixes it at 8192
\* (log_retrieval_server.py line 69); the model scales it down so that files
\* of a few bytes span several chunks and every position of a chunk boundary
\* relative to a line terminator occurs.
chunk_size == 2

\* The engine's max_lines.  The constructor's default is 1000 (line 21); the
\* model scales it down so that files with more than max_lines lines occur.
max_lines == 2

\* ------------------------------------------------------- optional values

None == <<>>

Some(v) == <<v>>

Val(o) == o[1]

Max(a, b) == IF a >= b THEN a ELSE b

Min(a, b) == IF a <= b THEN a ELSE b

\* --------------------------------------------------------------- strings

\* s[i], the i-th character of a str (1-based)
CharAt(s, i) == SubSeq(s, i, i)

\* str.startswith(prefix)
StartsWith(s, prefix) ==
    /\ Len(prefix) <= Len(s)
    /\ SubSeq(s, 1, Len(prefix)) = prefix

\* str.endswith(suffix)
EndsWith(s, suffix) ==
    /\ Len(suffix) <= Len(s)
    /\ SubSeq(s, Len(s) - Len(suffix) + 1, Len(s)) = suffix

\* `sub in s` for two str
Contains(s, sub) ==
    \E i \in 1..(Len(s) - Len(sub) + 1) : SubSeq(s, i, i + Len(sub) - 1) = sub

\* str.split(sep) for a one-character separator: the fields between the
\* separators, empty fields kept ("a  b".split(" ") = ["a", "", "b"]).
RECURSIVE SplitFrom(_, _, _, _)
SplitFrom(s, sep, i, cur) ==
    IF i > Len(s) THEN <<cur>>
    ELSE IF CharAt(s, i) = sep
         THEN <<cur>> \o SplitFrom(s, sep, i + 1, "")
         ELSE SplitFrom(s, sep, i + 1, cur \o CharAt(s, i))

Split(s, sep) == SplitFrom(s, sep, 1, "")

\* sep.join(parts)
RECURSIVE Join(_, _)
Join(parts, sep) ==
    IF parts = <<>> THEN ""
    ELSE IF Len(parts) = 1 THEN parts[1]
    ELSE parts[1] \o sep \o Join(Tail(parts), sep)

\* ----------------------------------------------------- bytes and decoding

\* The byte values files are made of: 'a', 'A', the line terminator '\n',
\* and 0xFF, a byte that occurs in no well-formed UTF-8 sequence.
Bytes == {97, 65, 10, 255}

\* The character of a one-byte (ASCII) code.
AsciiChar(b) ==
    CASE b = 97 -> "a"
      [] b = 65 -> "A"
      [] b = 10 -> "\n"

\* bytes.decode('utf-8', errors='ignore'): an ASCII byte yields its
\* character; a byte that starts no well-formed sequence is dropped and
\* decoding resumes at the next byte.
RECURSIVE Decode(_)
Decode(chunk) ==
    IF chunk = <<>> THEN ""
    ELSE IF chunk[1] < 128 THEN AsciiChar(chunk[1]) \o Decode(Tail(chunk))
    ELSE Decode(Tail(chunk))

\* str.splitlines(): the lines of a text without their terminators; a
\* terminator at the very end opens no further (empty) line, and the empty
\* text has no line.  '\n' is the only terminator of the byte alphabet.
RECURSIVE SplitlinesFrom(_, _, _)
SplitlinesFrom(text, i, cur) ==
    IF i > Len(text) THEN (IF cur = "" THEN <<>> ELSE <<cur>>)
    ELSE IF CharAt(text, i) = "\n"
         THEN <<cur>> \o SplitlinesFrom(text, i + 1, "")
         ELSE SplitlinesFrom(text, i + 1, cur \o CharAt(text, i))

Splitlines(text) == SplitlinesFrom(text, 1, "")

\* str.lower() on the characters of the alphabet
LowerChar(c) == IF c = "A" THEN "a" ELSE c

RECURSIVE Lower(_)
Lower(s) == IF s = "" THEN "" ELSE LowerChar(CharAt(s, 1)) \o Lower(Tail(s))

\* reversed(list)
Reverse(seq) == [i \in 1..Len(seq) |-> seq[Len(seq) + 1 - i]]

\* ------------------------------------------------------------ os.path

\* os.path.join(a, b) on POSIX: an absolute b replaces a; otherwise b is
\* appended, after a '/' unless a is empty or already ends with one.
OsPathJoin(a, b) ==
    IF StartsWith(b, "/") THEN b
    ELSE IF a = "" \/ EndsWith(a, "/") THEN a \o b
    ELSE a \o "/" \o b

\* The loop of posixpath.normpath over the components: '' and '.' are
\* skipped, '..' removes the component before it, and under an absolute path
\* a '..' with nothing before it is dropped.
RECURSIVE NormComps(_, _, _)
NormComps(comps, new_comps, initial_slashes) ==
    IF comps = <<>> THEN new_comps
    ELSE LET comp == Head(comps) IN
         IF comp \in {"", "."}
         THEN NormComps(Tail(comps), new_comps, initial_slashes)
         ELSE IF \/ comp # ".."
                 \/ (initial_slashes = 0 /\ new_comps = <<>>)
                 \/ (new_comps # <<>> /\ new_comps[Len(new_comps)] = "..")
         THEN NormComps(Tail(comps), Append(new_comps, comp), initial_slashes)
         ELSE IF new_comps # <<>>
         THEN NormComps(Tail(comps), SubSeq(new_comps, 1, Len(new_comps) - 1),
                        initial_slashes)
         ELSE NormComps(Tail(comps), new_comps, initial_slashes)

\* posixpath.normpath(path): a purely lexical normalisation.  Exactly two
\* leading slashes are kept; one, or three and more, become one.
Normpath(path) ==
    IF path = "" THEN "."
    ELSE LET initial_slashes ==
                 IF ~StartsWith(path, "/") THEN 0
                 ELSE IF StartsWith(path, "//") /\ ~StartsWith(path, "///")
                      THEN 2 ELSE 1
             joined == Join(NormComps(Split(path, "/"), <<>>, initial_slashes), "/")
             normed == IF initial_slashes = 2 THEN "//" \o joined
                       ELSE IF initial_slashes = 1 THEN "/" \o joined
                       ELSE joined
         IN  IF normed = "" THEN "." ELSE normed

\* The working directory of the server process; os.path.abspath reads it
\* only for a relative path, and every path the engine builds is absolute.
Cwd == "/"

\* os.path.abspath(path)
Abspath(path) ==
    Normpath(IF StartsWith(path, "/") THEN path ELSE OsPathJoin(Cwd, path))

\* ----------------------------------------------------------- file system

\* A file system maps the absolute, normalised path of each existing entry
\* to [kind: "dir" | "file", data: bytes, readable: whether the server
\* process may open it for reading].  There are no symbolic links.
IsDir(files, p) == p \in DOMAIN files /\ files[p].kind = "dir"

\* The directory holding a normalised absolute path ("/" for "/").
Parent(p) ==
    LET c == Split(p, "/")
    IN  IF Len(c) <= 2 THEN "/" ELSE Join(SubSeq(c, 1, Len(c) - 1), "/")

Child(dir, name) == IF dir = "/" THEN "/" \o name ELSE dir \o "/" \o name

\* The kernel's resolution of an absolute path, component by component:
\* every component is looked up in a directory that exists, so that
\* "/var/log/nodir/../f.log" does not resolve although its normpath does.
\* The result is the entry's key in the file system, or "" when the path
\* does not resolve (ENOENT, ENOTDIR).
RECURSIVE Walk(_, _, _)
Walk(files, cur, comps) ==
    IF comps = <<>> THEN cur
    ELSE LET comp == Head(comps) IN
         IF ~IsDir(files, cur) THEN ""
         ELSE IF comp \in {"", "."} THEN Walk(files, cur, Tail(comps))
         ELSE IF comp = ".." THEN Walk(files, Parent(cur), Tail(comps))
         ELSE IF Child(cur, comp) \notin DOMAIN files THEN ""
         ELSE Walk(files, Child(cur, comp), Tail(comps))

Resolve(files, path) == Walk(files, "/", Split(path, "/"))

\* os.path.exists(path)
Exists(files, path) == Resolve(files, path) # ""

\* ---------------------------------------------------------------- state

VARIABLES
    fs,             \* the file system the server runs on
    auth_token,     \* the token the server was started with, or None
    pc,             \* where the current call or request stands
    caller,         \* who invoked read_log_file: "direct" or "http"
    engine_calls,   \* invocations of read_log_file since the last idle state
    filename,       \* read_log_file's arguments
    lines,
    filter_text,
    full_path,      \* read_log_file's locals
    lines_wanted,
    matching_lines,
    f,              \* the open file: the key of its entry in fs, "" for none
    pos,
    leftovers,
    result,         \* the list read_log_file returned: None or <<list>>
    exc,            \* the exception read_log_file raised
    request,        \* the HTTP request being handled
    response,       \* the HTTP response sent for it
    earlier,        \* an outcome a caller kept from an earlier call, or None
    suspended       \* the frame of a call in another thread, not running now

args == <<filename, lines, filter_text>>

locals == <<full_path, lines_wanted, matching_lines, f, pos, leftovers>>

config == <<fs, auth_token>>

http == <<request, response>>

\* What lies outside the running call and the server's configuration.
outside == <<earlier, suspended>>

vars == <<fs, auth_token, pc, caller, engine_calls, filename, lines, filter_text,
          full_path, lines_wanted, matching_lines, f, pos, leftovers, result,
          exc, request, response, earlier, suspended>>

\* self.log_dir, hard-coded by the constructor
log_dir == "/var/log"

NoExc == [type |-> "", msg |-> ""]

NoRequest == [method |-> "", path |-> "", authorization |-> None,
              query |-> [filename |-> None, lines |-> None, filter |-> None]]

NoResponse == [status |-> 0, content_type |-> "", body |-> <<>>]

\* The file system around the log root: a log file "f.log", a directory
\* "sub" and a file the server may not read inside the root; a sibling
\* directory "/var/log2" whose name begins with the root's, and /etc/passwd,
\* outside it.
FsWith(data) ==
    LET dir == [kind |-> "dir", data |-> <<>>, readable |-> TRUE]
        file(d, r) == [kind |-> "file", data |-> d, readable |-> r]
    IN  [p \in {"/", "/var", "/var/log", "/var/log/sub", "/var/log2", "/etc"} |-> dir]
        @@ ("/var/log/f.log" :> file(data, TRUE))
        @@ ("/var/log/locked.log" :> file(<<97, 10>>, FALSE))
        @@ ("/var/log2/x" :> file(<<65, 10>>, TRUE))
        @@ ("/etc/passwd" :> file(<<97, 97, 10>>, TRUE))

\* Every file content of at most MaxLen bytes.
Contents == UNION {[1..n -> Bytes] : n \in 0..MaxLen}

\* The state after construction, before any call.
Idle ==
    /\ pc = "idle"
    /\ caller = ""
    /\ engine_calls = 0
    /\ filename = ""
    /\ lines = None
    /\ filter_text = None
    /\ full_path = ""
    /\ lines_wanted = 0
    /\ matching_lines = <<>>
    /\ f = ""
    /\ pos = 0
    /\ leftovers = ""
    /\ result = None
    /\ exc = NoExc
    /\ request = NoRequest
    /\ response = NoResponse

\* The frame of a call: where it stands, its arguments, its locals and its
\* outcome.  Every invocation of read_log_file has a frame of its own.
ThisFrame ==
    [pc |-> pc, caller |-> caller, engine_calls |-> engine_calls,
     filename |-> filename, lines |-> lines, filter_text |-> filter_text,
     full_path |-> full_path, lines_wanted |-> lines_wanted,
     matching_lines |-> matching_lines, f |-> f, pos |-> pos,
     leftovers |-> leftovers, result |-> result, exc |-> exc]

\* The frame of a thread that is in no call.
IdleFrame ==
    [pc |-> "idle", caller |-> "", engine_calls |-> 0,
     filename |-> "", lines |-> None, filter_text |-> None,
     full_path |-> "", lines_wanted |-> 0,
     matching_lines |-> <<>>, f |-> "", pos |-> 0,
     leftovers |-> "", result |-> None, exc |-> NoExc]

\* Nothing is kept from an earlier call and no other thread is in a call.
Alone == earlier = None /\ suspended = IdleFrame

\* -------------------------------------------------- read_log_file, steps

\* Python's truth value of an optional int and of an optional str
TruthyInt(o) == o # None /\ Val(o) # 0

TruthyStr(o) == o # None /\ Val(o) # ""

\* Line 53: the directory-traversal test.
PathAllowed(path) == StartsWith(Abspath(path), Abspath(log_dir))

\* Line 59: lines_wanted = lines or self.max_lines
LinesWanted(ln) == IF TruthyInt(ln) THEN Val(ln) ELSE max_lines

\* Line 93 with its `not` lost: the filter skips the lines that match.
FilterRejectsInverted(ft, line) == TruthyStr(ft) /\ Contains(line, Val(ft))

\* Line 93: whether the filter skips a line.
FilterRejects(ft, line) == TruthyStr(ft) /\ ~Contains(line, Val(ft))

\* Lines 92-97: the lines of a chunk, last first; chunk_lines[i] is the next.
RECURSIVE ProcessLines(_, _, _, _, _)
ProcessLines(chunk_lines, i, matching, ft, wanted) ==
    IF i = 0 THEN matching
    ELSE IF FilterRejects(ft, chunk_lines[i])
         THEN ProcessLines(chunk_lines, i - 1, matching, ft, wanted)
         ELSE LET appended == Append(matching, chunk_lines[i])
              IN  IF Len(appended) >= wanted THEN appended
                  ELSE ProcessLines(chunk_lines, i - 1, appended, ft, wanted)

\* Lines 74-80: the window [max(pos - chunk_size, 0), pos) of the file.
ChunkStart(p) == Max(p - chunk_size, 0)

\* Line 79 as f.read(chunk_size): a whole chunk from the window's start,
\* also when the window is the leftmost one and shorter than a chunk.
ReadChunkWholeChunk(data, p) ==
    SubSeq(data, ChunkStart(p) + 1, Min(ChunkStart(p) + chunk_size, Len(data)))

ReadChunk(data, p) == SubSeq(data, ChunkStart(p) + 1, p)

\* Lines 74-97: one iteration of the scan loop on the file `data`, from
\* cursor p, carry lo and output ml.  `raised` tells an IndexError: line 86
\* indexes chunk_lines[-1] and line 88 chunk_lines[0], and the list is empty
\* when the chunk decodes to the empty text.
ScanChunk(data, p, lo, ml, ft, wanted) ==
    LET new_pos == ChunkStart(p)
        chunk_lines == Splitlines(Decode(ReadChunk(data, p)))
        joined == IF lo # "" /\ chunk_lines # <<>>
                  THEN [chunk_lines EXCEPT ![Len(chunk_lines)] = @ \o lo]
                  ELSE chunk_lines
        completed == IF new_pos > 0 THEN Tail(joined) ELSE joined
    IN  IF chunk_lines = <<>> /\ (lo # "" \/ new_pos > 0)
        THEN [raised |-> TRUE, pos |-> new_pos, leftovers |-> lo,
              matching_lines |-> ml]
        ELSE [raised |-> FALSE, pos |-> new_pos,
              leftovers |-> IF new_pos > 0 THEN joined[1] ELSE lo,
              matching_lines |->
                  ProcessLines(completed, Len(completed), ml, ft, wanted)]

\* Line 72: the loop condition.
LoopCondition(p, ml, wanted) == p > 0 /\ Len(ml) < wanted

\* Lines 37-49: read_log_file is entered with its arguments bound.
EnterRead(fn, ln, ft) ==
    /\ filename' = fn
    /\ lines' = ln
    /\ filter_text' = ft
    /\ engine_calls' = engine_calls + 1
    /\ pc' = "check"

\* A caller in the same process (the tests' way) invokes read_log_file.
DirectCall(fn, ln, ft) ==
    /\ pc = "idle"
    /\ caller' = "direct"
    /\ EnterRead(fn, ln, ft)
    /\ UNCHANGED <<config, outside, locals, result, exc, http>>

\* Lines 50-57: the path check and the existence check.
PathCheck ==
    /\ pc = "check"
    /\ full_path' = OsPathJoin(log_dir, filename)
    /\ IF ~PathAllowed(full_path')
       THEN /\ exc' = [type |-> "PermissionError",
                       msg |-> "Invalid file path: " \o filename]
            /\ pc' = "raised"
       ELSE IF ~Exists(fs, full_path')
       THEN /\ exc' = [type |-> "FileNotFoundError",
                       msg |-> "Log file not found: " \o filename]
            /\ pc' = "raised"
       ELSE /\ exc' = exc
            /\ pc' = "open"
    /\ UNCHANGED <<config, outside, caller, engine_calls, args, lines_wanted,
                   matching_lines, f, pos, leftovers, result, http>>

\* Lines 59-70: the limit, the empty output, open(full_path, 'rb'), the seek
\* to the end.  open fails on a directory (IsADirectoryError, errno 21), on
\* a file the process may not read (PermissionError, errno 13) and on a path
\* that does not resolve (FileNotFoundError, errno 2); lines 101-103 print
\* the exception and raise it again.
Open ==
    /\ pc = "open"
    /\ lines_wanted' = LinesWanted(lines)
    /\ matching_lines' = <<>>
    /\ LET target == Resolve(fs, full_path)
       IN  IF target = ""
           THEN /\ exc' = [type |-> "FileNotFoundError",
                           msg |-> "[Errno 2] No such file or directory: '"
                                   \o full_path \o "'"]
                /\ pc' = "raised"
                /\ UNCHANGED <<f, pos, leftovers>>
           ELSE IF fs[target].kind = "dir"
           THEN /\ exc' = [type |-> "IsADirectoryError",
                           msg |-> "[Errno 21] Is a directory: '"
                                   \o full_path \o "'"]
                /\ pc' = "raised"
                /\ UNCHANGED <<f, pos, leftovers>>
           ELSE IF ~fs[target].readable
           THEN /\ exc' = [type |-> "PermissionError",
                           msg |-> "[Errno 13] Permission denied: '"
                                   \o full_path \o "'"]
                /\ pc' = "raised"
                /\ UNCHANGED <<f, pos, leftovers>>
           ELSE /\ f' = target
                /\ pos' = Len(fs[target].data)
                /\ leftovers' = ""
                /\ exc' = exc
                /\ pc' = "loop"
    /\ UNCHANGED <<config, outside, caller, engine_calls, args, full_path, result, http>>

\* Lines 72-97: one iteration of the scan loop.  An IndexError leaves the
\* with block, which closes the file, and lines 101-103 raise it again.
LoopStep ==
    /\ pc = "loop"
    /\ LoopCondition(pos, matching_lines, lines_wanted)
    /\ LET step == ScanChunk(fs[f].data, pos, leftovers, matching_lines,
                             filter_text, lines_wanted)
       IN  /\ pos' = step.pos
           /\ leftovers' = step.leftovers
           /\ matching_lines' = step.matching_lines
           /\ IF step.raised
              THEN /\ exc' = [type |-> "IndexError",
                              msg |-> "list index out of range"]
                   /\ f' = ""
                   /\ pc' = "raised"
              ELSE /\ exc' = exc
                   /\ f' = f
                   /\ pc' = "loop"
    /\ UNCHANGED <<config, outside, caller, engine_calls, args, full_path, lines_wanted,
                   result, http>>

\* ReadFails without the with block of line 63: the exception leaves the
\* function and the file stays open.
ReadFailsLeavingOpen(e) ==
    /\ pc = "loop"
    /\ LoopCondition(pos, matching_lines, lines_wanted)
    /\ exc' = e
    /\ pc' = "raised"
    /\ UNCHANGED <<config, outside, caller, engine_calls, args, locals, result,
                   http>>

\* Lines 76-79: f.seek or f.read of an iteration fails in the operating
\* system with the exception e, an OSError of the class Python gives the
\* system's error number.  The exception leaves the with block, which
\* closes the file, and lines 101-103 print it and raise it again; cursor,
\* carry and output are as the iterations before left them.
ReadFails(e) ==
    /\ pc = "loop"
    /\ LoopCondition(pos, matching_lines, lines_wanted)
    /\ exc' = e
    /\ f' = ""
    /\ pc' = "raised"
    /\ UNCHANGED <<config, outside, caller, engine_calls, args, full_path,
                   lines_wanted, matching_lines, pos, leftovers, result, http>>

\* Return, with the part of the file the scan went through cut off as read:
\* the next call on the file begins where this one stopped.
ReturnConsumingFile ==
    /\ pc = "loop"
    /\ ~LoopCondition(pos, matching_lines, lines_wanted)
    /\ fs' = [fs EXCEPT ![f].data = SubSeq(@, 1, pos)]
    /\ f' = ""
    /\ result' = Some(matching_lines)
    /\ pc' = "returned"
    /\ UNCHANGED <<auth_token, outside, caller, engine_calls, args, full_path,
                   lines_wanted, matching_lines, pos, leftovers, exc, http>>

\* Lines 72 and 99: the loop condition fails, the with block closes the file
\* and matching_lines is returned.
Return ==
    /\ pc = "loop"
    /\ ~LoopCondition(pos, matching_lines, lines_wanted)
    /\ f' = ""
    /\ result' = Some(matching_lines)
    /\ pc' = "returned"
    /\ UNCHANGED <<config, outside, caller, engine_calls, args, full_path, lines_wanted,
                   matching_lines, pos, leftovers, exc, http>>

\* The direct caller has its list or its exception; the call's locals are
\* gone and the server is idle again.
Finish ==
    /\ \/ pc \in {"returned", "raised"} /\ caller = "direct"
       \/ pc = "responded"
    /\ pc' = "idle"
    /\ caller' = ""
    /\ engine_calls' = 0
    /\ filename' = ""
    /\ lines' = None
    /\ filter_text' = None
    /\ full_path' = ""
    /\ lines_wanted' = 0
    /\ matching_lines' = <<>>
    /\ f' = ""
    /\ pos' = 0
    /\ leftovers' = ""
    /\ result' = None
    /\ exc' = NoExc
    /\ request' = NoRequest
    /\ response' = NoResponse
    /\ UNCHANGED <<config, outside>>

\* The direct caller keeps the outcome of the call that ended, with the
\* arguments it passed, and the call is over as in Finish.
Keep ==
    /\ pc \in {"returned", "raised"}
    /\ caller = "direct"
    /\ earlier = None
    /\ earlier' = Some([args |-> args, result |-> result, exc |-> exc])
    /\ pc' = "idle"
    /\ caller' = ""
    /\ engine_calls' = 0
    /\ filename' = ""
    /\ lines' = None
    /\ filter_text' = None
    /\ full_path' = ""
    /\ lines_wanted' = 0
    /\ matching_lines' = <<>>
    /\ f' = ""
    /\ pos' = 0
    /\ leftovers' = ""
    /\ result' = None
    /\ exc' = NoExc
    /\ UNCHANGED <<config, http, suspended>>

\* The interpreter switches threads as if the cursor were an attribute of
\* the engine object: the frames are exchanged and pos stays.
SwitchSharingCursor ==
    /\ caller # "http"
    /\ pc # "idle" \/ suspended.pc # "idle"
    /\ suspended' = ThisFrame
    /\ pc' = suspended.pc
    /\ caller' = suspended.caller
    /\ engine_calls' = suspended.engine_calls
    /\ filename' = suspended.filename
    /\ lines' = suspended.lines
    /\ filter_text' = suspended.filter_text
    /\ full_path' = suspended.full_path
    /\ lines_wanted' = suspended.lines_wanted
    /\ matching_lines' = suspended.matching_lines
    /\ f' = suspended.f
    /\ pos' = pos
    /\ leftovers' = suspended.leftovers
    /\ result' = suspended.result
    /\ exc' = suspended.exc
    /\ UNCHANGED <<config, http, earlier>>

\* Two threads call read_log_file on the same engine: between any two
\* steps of the running call the interpreter may switch to the other
\* thread.  Arguments, locals (the file object with its own offset among
\* them) and outcome belong to the frame, lines 37-99; the frames are
\* exchanged.
Switch ==
    /\ caller # "http"
    /\ pc # "idle" \/ suspended.pc # "idle"
    /\ suspended' = ThisFrame
    /\ pc' = suspended.pc
    /\ caller' = suspended.caller
    /\ engine_calls' = suspended.engine_calls
    /\ filename' = suspended.filename
    /\ lines' = suspended.lines
    /\ filter_text' = suspended.filter_text
    /\ full_path' = suspended.full_path
    /\ lines_wanted' = suspended.lines_wanted
    /\ matching_lines' = suspended.matching_lines
    /\ f' = suspended.f
    /\ pos' = suspended.pos
    /\ leftovers' = suspended.leftovers
    /\ result' = suspended.result
    /\ exc' = suspended.exc
    /\ UNCHANGED <<config, http, earlier>>

\* ------------------------------------------------- do_GET, the gateway

\* int(s) for a str: an optional sign and one or more decimal digits give
\* Some(n); anything else is a ValueError, None.
Digits == <<"0", "1", "2", "3", "4", "5", "6", "7", "8", "9">>

IsDigit(c) == \E d \in 1..10 : Digits[d] = c

DigitValue(c) == (CHOOSE d \in 1..10 : Digits[d] = c) - 1

RECURSIVE DigitsValue(_, _)
DigitsValue(s, acc) ==
    IF s = "" THEN acc
    ELSE DigitsValue(Tail(s), acc * 10 + DigitValue(CharAt(s, 1)))

IntParse(s) ==
    LET signed == StartsWith(s, "-") \/ StartsWith(s, "+")
        digits == IF signed THEN Tail(s) ELSE s
    IN  IF digits = "" \/ \E i \in 1..Len(digits) : ~IsDigit(CharAt(digits, i))
        THEN None
        ELSE IF StartsWith(s, "-") THEN Some(0 - DigitsValue(digits, 0))
        ELSE Some(DigitsValue(digits, 0))

\* Line 130, parse_qs: a parameter with a blank value is left out.
ParseQs(query) ==
    [k \in DOMAIN query |-> IF query[k] = Some("") THEN None ELSE query[k]]

\* Lines 110-117: send_error_json
ErrorJson(code, message) ==
    [status |-> code, content_type |-> "application/json",
     body |-> [error |-> message]]

\* Lines 134-142: whether the authentication check lets the request pass;
\* otherwise the message of its 401.
AuthFailure(token, auth_header) ==
    IF ~TruthyStr(token) THEN ""
    ELSE IF ~TruthyStr(auth_header) \/ ~StartsWith(Val(auth_header), "Bearer ")
    THEN "Authorization header missing or invalid"
    ELSE IF Split(Val(auth_header), " ")[2] # Val(token) THEN "Invalid token"
    ELSE ""

\* Line 151: the lines parameter, '1000' when absent, through int().
LinesParam(params) ==
    IntParse(IF params.lines = None THEN "1000" ELSE Val(params.lines))

\* Lines 188-203, serve_ui: the page templates/index.html is no part of the
\* repository; reading it succeeds or fails.
ServeUi(template_ok) ==
    IF template_ok
    THEN [status |-> 200, content_type |-> "text/html", body |-> "index.html"]
    ELSE ErrorJson(500, "Error serving UI: [Errno 2] No such file or directory")

\* Lines 119-163: do_GET up to the call of read_log_file.  A request is
\* [method, path, authorization: the header or None, query: the raw values
\* of filename, lines and filter, each or None]; do_GET receives the
\* requests whose method is GET.
Receive(req, template_ok) ==
    /\ pc = "idle"
    /\ req.method = "GET"
    /\ request' = req
    /\ caller' = "http"
    /\ LET params == ParseQs(req.query)
           denied == AuthFailure(auth_token, req.authorization)
       IN  IF req.path = "/"
           THEN /\ response' = ServeUi(template_ok)
                /\ pc' = "responded"
                /\ UNCHANGED <<args, engine_calls>>
           ELSE IF req.path # "/logs"
           THEN /\ response' = ErrorJson(404, "Not Found")
                /\ pc' = "responded"
                /\ UNCHANGED <<args, engine_calls>>
           ELSE IF denied # ""
           THEN /\ response' = ErrorJson(401, denied)
                /\ pc' = "responded"
                /\ UNCHANGED <<args, engine_calls>>
           ELSE IF ~TruthyStr(params.filename)
           THEN /\ response' = ErrorJson(400, "Filename is required")
                /\ pc' = "responded"
                /\ UNCHANGED <<args, engine_calls>>
           ELSE IF LinesParam(params) = None
           THEN /\ response' = ErrorJson(400, "Invalid lines parameter")
                /\ pc' = "responded"
                /\ UNCHANGED <<args, engine_calls>>
           ELSE /\ EnterRead(Val(params.filename), LinesParam(params),
                             params.filter)
                /\ response' = response
    /\ UNCHANGED <<config, outside, locals, result, exc>>

\* Line 105: LogRequestHandler defines do_GET and no other do_<METHOD>, so
\* its base class BaseHTTPRequestHandler answers a request of any other
\* method itself, through send_error(501): an HTML page, no JSON.
Unsupported(req) ==
    /\ pc = "idle"
    /\ req.method # "GET"
    /\ request' = req
    /\ caller' = "http"
    /\ response' = [status |-> 501, content_type |-> "text/html;charset=utf-8",
                    body |-> "Unsupported method ('" \o req.method \o "')"]
    /\ pc' = "responded"
    /\ UNCHANGED <<config, outside, engine_calls, args, locals, result, exc>>

\* Lines 175-180: the status and message for an exception of read_log_file.
ErrorResponse(e, fn) ==
    IF e.type = "FileNotFoundError"
    THEN ErrorJson(404, "Log file not found: " \o fn)
    ELSE IF e.type = "PermissionError"
    THEN ErrorJson(403, "Access to file path denied")
    ELSE ErrorJson(500, "Internal server error: " \o e.msg)

\* Respond with the entries put in the file's order, oldest first.
RespondOldestFirst ==
    /\ pc \in {"returned", "raised"}
    /\ caller = "http"
    /\ response' =
           IF pc = "returned"
           THEN [status |-> 200, content_type |-> "application/json",
                 body |-> [filename |-> filename,
                           total_entries |-> Len(Val(result)),
                           entries |-> Reverse(Val(result))]]
           ELSE ErrorResponse(exc, filename)
    /\ pc' = "responded"
    /\ UNCHANGED <<config, outside, caller, engine_calls, args, locals, result, exc,
                   request>>

\* Lines 165-180: do_GET after read_log_file returned or raised.
Respond ==
    /\ pc \in {"returned", "raised"}
    /\ caller = "http"
    /\ response' =
           IF pc = "returned"
           THEN [status |-> 200, content_type |-> "application/json",
                 body |-> [filename |-> filename,
                           total_entries |-> Len(Val(result)),
                           entries |-> Val(result)]]
           ELSE ErrorResponse(exc, filename)
    /\ pc' = "responded"
    /\ UNCHANGED <<config, outside, caller, engine_calls, args, locals, result, exc,
                   request>>

\* ------------------------------------------------------ callers' inputs

\* The values of `lines` a caller passes: none, a negative one, zero, and
\* every positive one up to one more than max_lines.
LinesArgs == {None, Some(-1)} \cup {Some(k) : k \in 0..(max_lines + 1)}

\* The values of `filter_text` a caller passes.
FilterArgs == {None, Some("A")}

\* ------------------------------------- the server on a fixed file system

\* The file names callers ask for.
Filenames ==
    {"f.log", "missing.log", "sub", "locked.log", ".", "sub/../f.log",
     "nodir/../f.log", "../x", "/etc/passwd", "a/../../b",
     "../../../etc/passwd", "../log2/x", "../log2/missing"}

Requests ==
    [method : {"GET"},
     path : {"/logs", "/", "/other"},
     authorization : {None, Some("Bearer abc"), Some("Bearer wrong"),
                      Some("Bearer abc extra"), Some("Basic abc"),
                      Some("Bearer"), Some("bearer abc"), Some("Bearer  abc")},
     query : [filename : {None, Some("")} \cup {Some(fn) : fn \in Filenames},
              lines : {None, Some("invalid"), Some("0"), Some("-5"),
                       Some("1"), Some("2")},
              filter : {None, Some("A")}]]

\* Requests of the methods the handler has no do_<METHOD> for.
OtherRequests ==
    [method : {"POST", "PUT"},
     path : {"/logs", "/", "/other"},
     authorization : {None, Some("Bearer abc")},
     query : [filename : {None, Some("f.log")},
              lines : {None},
              filter : {None}]]

Init ==
    /\ fs = FsWith(<<97, 10, 65>>)
    /\ auth_token \in {None, Some("abc")}
    /\ Idle
    /\ Alone

Next ==
    \/ \E fn \in Filenames \cup {""}, ln \in LinesArgs, ft \in FilterArgs :
           DirectCall(fn, ln, ft)
    \/ \E req \in Requests, template_ok \in BOOLEAN : Receive(req, template_ok)
    \/ \E req \in OtherRequests : Unsupported(req)
    \/ PathCheck
    \/ Open
    \/ LoopStep
    \/ Return
    \/ Respond
    \/ Finish

Spec == Init /\ [][Next]_vars

\* ------------------------ the server on a disk whose reads may fail

\* The exceptions of a seek or read that fails: the device reports an error
\* (EIO) or the file's server no longer knows the handle (ESTALE), both a
\* plain OSError; or the file's server refuses the read, the access rights
\* having been withdrawn since the open (EACCES, as on a network file
\* system), which Python raises as PermissionError.  Unlike the exceptions
\* of open, their messages name no path.
ReadErrors ==
    {[type |-> "OSError", msg |-> "[Errno 5] Input/output error"],
     [type |-> "OSError", msg |-> "[Errno 116] Stale file handle"],
     [type |-> "PermissionError", msg |-> "[Errno 13] Permission denied"]}

NextFaults ==
    \/ Next
    \/ \E e \in ReadErrors : ReadFails(e)

SpecFaults == Init /\ [][NextFaults]_vars

\* ------------------------------------------ the scan on every file content

InitScan ==
    /\ fs \in {FsWith(data) : data \in Contents}
    /\ auth_token = None
    /\ Idle
    /\ Alone

NextScan ==
    \/ \E ln \in LinesArgs, ft \in FilterArgs : DirectCall("f.log", ln, ft)
    \/ PathCheck
    \/ Open
    \/ LoopStep
    \/ Return
    \/ Finish

SpecScan == InitScan /\ [][NextScan]_vars

\* ----------------------------------- calls in sequence, one outcome kept

\* The file names of the calls in sequence: a log file, absent names, a
\* directory, an unreadable file, names that leave the log root.
SequenceFilenames ==
    {"f.log", "missing.log", "sub", "locked.log", "sub/../f.log", "../x",
     "/etc/passwd", "../log2/x"}

NextCalls ==
    \/ \E fn \in SequenceFilenames, ln \in LinesArgs, ft \in FilterArgs :
           DirectCall(fn, ln, ft)
    \/ PathCheck
    \/ Open
    \/ LoopStep
    \/ Return
    \/ Finish
    \/ Keep

SpecCalls == Init /\ [][NextCalls]_vars

\* ------------------------------------------- two calls in two threads

\* The file names of the calls in two threads: two log files and an absent
\* name.
PairFilenames == {"f.log", "g.log", "missing.log"}

\* Two log files of several chunks each.
InitPair ==
    /\ fs = FsWith(<<65, 10, 97, 10, 65>>)
             @@ ("/var/log/g.log" :> [kind |-> "file", data |-> <<97, 97, 97, 10, 65>>,
                                      readable |-> TRUE])
    /\ auth_token = None
    /\ Idle
    /\ Alone

NextPair ==
    \/ \E fn \in PairFilenames, ln \in LinesArgs, ft \in FilterArgs :
           DirectCall(fn, ln, ft)
    \/ PathCheck
    \/ Open
    \/ LoopStep
    \/ Return
    \/ Finish
    \/ Switch

SpecPair == InitPair /\ [][NextPair]_vars

\* ----------------------------------------------------------- properties

\* The file the scan is explored on, and its lines: the whole content
\* decoded at once and split at the line terminators.
ScanData == fs["/var/log/f.log"].data

FileLines == Splitlines(Decode(ScanData))

\* The file is well-formed UTF-8: every byte of it is an ASCII byte.
WellFormed == \A i \in 1..Len(ScanData) : ScanData[i] < 128

\* The first k elements of a list (all of them when it has fewer).
Take(seq, k) == SubSeq(seq, 1, Min(k, Len(seq)))

\* `sub in s`, letter case ignored
ContainsIgnoreCase(s, sub) == Contains(Lower(s), Lower(sub))

\* The lines of the file that contain the filter, letter case ignored.
MatchingFileLines ==
    LET Matches(line) == ContainsIgnoreCase(line, Val(filter_text))
    IN  SelectSeq(FileLines, Matches)

\* A direct call of read_log_file has ended, by return or by exception.
CallEnded == caller = "direct" /\ pc \in {"returned", "raised"}

\* The limit a call asks for: `lines` when positive, max_lines when absent
\* or not positive.
RequestedLimit == IF lines # None /\ Val(lines) > 0 THEN Val(lines) ELSE max_lines

\* C1: with no filter and lines = N, the number of lines of the file
\* (N >= 1), read_log_file returns all N lines, each as it is in the file,
\* last line first.  Stated for the well-formed files, wherever the chunk
\* boundaries fall in them.
C1_AllLinesReversed ==
    (/\ CallEnded
     /\ WellFormed
     /\ filter_text = None
     /\ Len(FileLines) >= 1
     /\ lines = Some(Len(FileLines)))
    => /\ pc = "returned"
       /\ Val(result) = Reverse(FileLines)

\* C2: with no filter and 1 <= k <= N, read_log_file returns exactly the
\* last k lines of the file, last line first.  Stated for the well-formed
\* files.
C2_LastKLines ==
    (/\ CallEnded
     /\ WellFormed
     /\ filter_text = None
     /\ lines # None
     /\ Val(lines) >= 1
     /\ Val(lines) <= Len(FileLines))
    => /\ pc = "returned"
       /\ Len(Val(result)) = Val(lines)
       /\ Val(result) = Take(Reverse(FileLines), Val(lines))

\* C4: with filter f and limit k, read_log_file returns the min(k, M) most
\* recent of the M lines that contain f ignoring letter case, most recent
\* first.  Stated for the well-formed files.
C4_FilterIgnoresCase ==
    (/\ CallEnded
     /\ WellFormed
     /\ filter_text # None
     /\ lines # None
     /\ Val(lines) >= 1)
    => /\ pc = "returned"
       /\ Val(result) = Take(Reverse(MatchingFileLines), Val(lines))

\* C5: every line read_log_file returns under a filter f contains f, letter
\* case ignored, and the number of returned lines never exceeds the limit.
C5_OnlyMatchingWithinLimit ==
    (pc = "returned" /\ caller = "direct" /\ filter_text # None)
    => /\ \A i \in 1..Len(Val(result)) :
              ContainsIgnoreCase(Val(result)[i], Val(filter_text))
       /\ Len(Val(result)) <= RequestedLimit

\* C5's case: a filtered call with limit 1 returned one line of a file that
\* holds a line without the filter text and at least two lines with it.
C5_Witness ==
    /\ pc = "returned"
    /\ caller = "direct"
    /\ filter_text = Some("A")
    /\ lines = Some(1)
    /\ Len(Val(result)) = 1
    /\ Len(MatchingFileLines) >= 2
    /\ Len(MatchingFileLines) < Len(FileLines)

\* C6: whatever `lines` is, also above max_lines, the returned list has at
\* most min(lines, max_lines) elements.
C6_CappedAtMaxLines ==
    (pc = "returned" /\ caller = "direct")
    => Len(Val(result)) <= Min(RequestedLimit, max_lines)

\* C7: with `lines` absent, zero or negative, no filter and a file of at
\* least max_lines lines, read_log_file returns exactly the max_lines most
\* recent lines.
C7_DefaultLimit ==
    (/\ CallEnded
     /\ WellFormed
     /\ filter_text = None
     /\ (lines = None \/ Val(lines) <= 0)
     /\ Len(FileLines) >= max_lines)
    => /\ pc = "returned"
       /\ Val(result) = Take(Reverse(FileLines), max_lines)

\* Whether a path, made absolute and normalised, is the log root or lies
\* beneath it.
InsideLogRoot(path) ==
    \/ Abspath(path) = Abspath(log_dir)
    \/ StartsWith(Abspath(path), Abspath(log_dir) \o "/")

\* The exception of line 54.
IsPathViolation(e) ==
    e.type = "PermissionError" /\ StartsWith(e.msg, "Invalid file path: ")

\* C3: a call whose file name leads outside the log root is past its path
\* check only with the path-violation error raised: it reaches neither the
\* existence check's verdict nor the open.
C3_OutsideRootRejected ==
    (/\ engine_calls > 0
     /\ pc # "check"
     /\ ~InsideLogRoot(OsPathJoin(log_dir, filename)))
    => /\ IsPathViolation(exc)
       /\ result = None
       /\ f = ""

\* A GET request for /logs has been received.
LogsRequest ==
    /\ pc # "idle"
    /\ caller = "http"
    /\ request.method = "GET"
    /\ request.path = "/logs"

\* The Authorization header is exactly "Bearer " and the configured token.
ExactBearer == request.authorization = Some("Bearer " \o Val(auth_token))

\* C8: with a token configured, a /logs request whose Authorization header
\* is not exactly "Bearer <token>" is answered 401 with a JSON error body
\* and the engine is not invoked; with the exact header, an existing file and
\* valid parameters the answer is 200.
C8_BearerRequired ==
    (LogsRequest /\ auth_token # None)
    => /\ ~ExactBearer
          => /\ pc = "responded"
             /\ response.status = 401
             /\ DOMAIN response.body = {"error"}
             /\ engine_calls = 0
       /\ (/\ ExactBearer
           /\ pc = "responded"
           /\ request.query.filename = Some("f.log")
           /\ request.query.lines \in {None, Some("1"), Some("2")})
          => response.status = 200

\* The request passes authentication: no token is configured, or the header
\* is exact.
Authenticated == auth_token = None \/ ExactBearer

\* The lines parameter is present and is no positive integer.
LinesNotPositive ==
    /\ request.query.lines \notin {None, Some("")}
    /\ \/ IntParse(Val(request.query.lines)) = None
       \/ Val(IntParse(Val(request.query.lines))) <= 0

\* C9: an authenticated /logs request with a missing or empty filename, or
\* with a lines parameter that is no positive integer, is answered 400 and
\* read_log_file is not called.
C9_ValidationBeforeEngine ==
    (/\ LogsRequest
     /\ Authenticated
     /\ \/ request.query.filename \in {None, Some("")}
        \/ LinesNotPositive)
    => /\ pc = "responded"
       /\ response.status = 400
       /\ engine_calls = 0

\* C10: a /logs request that reached the engine is answered 200 when the
\* engine returned, 403 exactly when it rejected the path as a path
\* violation, 404 exactly when the file is absent, and 500 for every other
\* failure; every error body is {"error": message}.
C10_StatusByOutcome ==
    (LogsRequest /\ pc = "responded" /\ engine_calls > 0)
    => /\ response.status =
              IF result # None THEN 200
              ELSE IF IsPathViolation(exc) THEN 403
              ELSE IF exc.type = "FileNotFoundError" THEN 404
              ELSE 500
       /\ response.status # 200 => DOMAIN response.body = {"error"}

\* The path names an existing regular file.
IsRegularFile(files, path) ==
    Resolve(files, path) # "" /\ files[Resolve(files, path)].kind = "file"

\* C11: a call whose file name passes the path check but names nothing, or
\* something that is no regular file (a directory inside the log root, the
\* root itself through "."), is past its existence check and its open only
\* with the not-found error, FileNotFoundError, raised, and with no file
\* opened or read.
C11_NotRegularIsNotFound ==
    (/\ engine_calls > 0
     /\ pc \notin {"check", "open"}
     /\ PathAllowed(OsPathJoin(log_dir, filename))
     /\ ~IsRegularFile(fs, OsPathJoin(log_dir, filename)))
    => /\ exc.type = "FileNotFoundError"
       /\ result = None
       /\ f = ""

\* C12: whatever bytes the file holds, also a whole chunk of bytes that are
\* no valid UTF-8, a call on an existing readable file ends by returning a
\* list: the scan raises nothing.
C12_MalformedBytesTolerated ==
    CallEnded => /\ pc = "returned"
                 /\ result # None
                 /\ exc = NoExc

\* C13: in every state of a scan the carry fragment `leftovers` is no longer
\* than one chunk, so the file data held outside the output list (a decoded
\* chunk, of at most chunk_size characters, and the carry) stays within twice
\* the chunk size whatever the file's size and content.
C13_CarryWithinOneChunk ==
    Len(leftovers) <= chunk_size

\* The file is not empty and does not end with a line terminator.
UnterminatedLastLine == ScanData # <<>> /\ ScanData[Len(ScanData)] # 10

\* C14: a call on an empty file returns the empty list and raises nothing;
\* and a call without filter, with `lines` absent or positive, on a
\* well-formed non-empty file whose last line has no line terminator returns
\* that last line, whole, as the first element of its result.
C14_EmptyAndUnterminated ==
    /\ (CallEnded /\ ScanData = <<>>)
       => /\ pc = "returned"
          /\ result = Some(<<>>)
    /\ (/\ CallEnded
        /\ WellFormed
        /\ UnterminatedLastLine
        /\ filter_text = None
        /\ (lines = None \/ Val(lines) >= 1))
       => /\ pc = "returned"
          /\ Len(Val(result)) >= 1
          /\ Val(result)[1] = FileLines[Len(FileLines)]

\* A request has been answered that is neither GET /logs nor GET /.
OtherRequestAnswered ==
    /\ pc = "responded"
    /\ ~(request.method = "GET" /\ request.path \in {"/logs", "/"})

\* C15: every request that is neither GET /logs nor GET /, be it a GET of
\* another path or a request of another method (POST, PUT) on any path, is
\* answered with status 404 and a JSON body {"error": message}.
C15_OtherRequestsNotFound ==
    OtherRequestAnswered
    => /\ response.status = 404
       /\ response.content_type = "application/json"
       /\ DOMAIN response.body = {"error"}

\* A direct call has ended whose arguments are those of the earlier call
\* the caller kept the outcome of.
SameCallAgain ==
    /\ CallEnded
    /\ earlier # None
    /\ Val(earlier).args = args

\* The call ended as the earlier call did: the same list returned, or the
\* same exception raised.
SameOutcome == result = Val(earlier).result /\ exc = Val(earlier).exc

\* C16: after any sequence of calls, returned or failed, on any files, a call
\* with the arguments of an earlier call ends as that earlier call did, the
\* first call of all included; and no step of any call changes the
\* configuration (the token, and the files under the log root; log_dir and
\* max_lines are constants here).
C16_NoCrossRequestState ==
    /\ [](SameCallAgain => SameOutcome)
    /\ [][config' = config]_vars

\* C16's case: a call on the log file returned the same two lines as the
\* earlier call with the same arguments.
C16_Witness ==
    /\ SameCallAgain
    /\ SameOutcome
    /\ filename = "f.log"
    /\ pc = "returned"
    /\ Len(Val(result)) = 2

\* The scan loop run from cursor p to its end with no other call about: the
\* list returned, or the exception raised.
RECURSIVE ScanAlone(_, _, _, _, _, _)
ScanAlone(data, p, lo, ml, ft, wanted) ==
    IF ~LoopCondition(p, ml, wanted)
    THEN [result |-> Some(ml), error |-> ""]
    ELSE LET step == ScanChunk(data, p, lo, ml, ft, wanted)
         IN  IF step.raised
             THEN [result |-> None, error |-> "IndexError"]
             ELSE ScanAlone(data, step.pos, step.leftovers,
                            step.matching_lines, ft, wanted)

\* What read_log_file(fn, ln, ft) does when it is the only call: the list it
\* returns, or the type of the exception it raises.
ReadAlone(files, fn, ln, ft) ==
    LET path == OsPathJoin(log_dir, fn)
        target == Resolve(files, path)
    IN  IF ~PathAllowed(path)
        THEN [result |-> None, error |-> "PermissionError"]
        ELSE IF ~Exists(files, path)
        THEN [result |-> None, error |-> "FileNotFoundError"]
        ELSE IF files[target].kind = "dir"
        THEN [result |-> None, error |-> "IsADirectoryError"]
        ELSE IF ~files[target].readable
        THEN [result |-> None, error |-> "PermissionError"]
        ELSE ScanAlone(files[target].data, Len(files[target].data), "", <<>>,
                       ft, LinesWanted(ln))

\* A frame whose call has ended holds what the call gives when run alone.
EndsAsAlone(c) ==
    c.pc \in {"returned", "raised"}
    => LET alone == ReadAlone(fs, c.filename, c.lines, c.filter_text)
       IN  c.result = alone.result /\ c.exc.type = alone.error

\* C17: of two calls on the same engine, on the same file or on different
\* files, whose steps (path check, open, every iteration of the scan loop,
\* return) interleave in any order, each ends with exactly the list or the
\* exception it gives when run alone.
C17_InterleavedAsAlone ==
    EndsAsAlone(ThisFrame) /\ EndsAsAlone(suspended)

\* C17's case: a call returned all three lines of a file while the call of
\* the other thread, begun before, stands in the middle of its scan, some
\* chunks read, a line collected and a carry pending.
C17_Witness ==
    /\ pc = "returned"
    /\ filename = "f.log"
    /\ Len(Val(result)) = 3
    /\ suspended.pc = "loop"
    /\ suspended.f # ""
    /\ suspended.pos > 0
    /\ suspended.matching_lines # <<>>
    /\ suspended.leftovers # ""

\* The offsets of the line terminators of the file, and the offsets at which
\* one chunk window of the scan ends and the next begins: the file's end
\* less a multiple of chunk_size.  A boundary b lies between the bytes b and
\* b + 1.
Terminators == {k \in 1..Len(ScanData) : ScanData[k] = 10}

Boundaries ==
    {b \in 1..(Len(ScanData) - 1) : (Len(ScanData) - b) % chunk_size = 0}

\* The lines of the file (by their index in FileLines) that straddle a chunk
\* boundary: the boundary has a character of the line on either side.
StraddlingLines ==
    {1 + Cardinality({k \in Terminators : k < b}) :
        b \in {c \in Boundaries : ScanData[c] # 10 /\ ScanData[c + 1] # 10}}

\* C18: after a call without filter, with `lines` absent or positive, on a
\* well-formed file, every line that straddles a chunk boundary (one boundary
\* or several, the line being longer than a chunk) and lies within the limit
\* stands in the result once, at its place counted from the file's end, and
\* whole: neither cut, nor split in two, nor joined with anything else.
C18_StraddlingLineWhole ==
    (/\ CallEnded
     /\ WellFormed
     /\ filter_text = None
     /\ (lines = None \/ Val(lines) >= 1))
    => \A i \in StraddlingLines :
           LET rank == Len(FileLines) - i + 1
           IN  rank <= Min(RequestedLimit, max_lines)
               => /\ pc = "returned"
                  /\ Len(Val(result)) >= rank
                  /\ Val(result)[rank] = FileLines[i]

\* A step from the scan loop that is an iteration of it (and not the return).
LoopIterated == pc = "loop" /\ pc' \in {"loop", "raised"}

\* What the claim says of an iteration: it runs only with the cursor above 0
\* and the output below the limit; the cursor moves down to
\* max(pos - chunk_size, 0), never below 0; the bytes read are those of the
\* window between the new cursor and the old one, so the windows of a scan
\* abut and no byte is in two of them; lines are only appended to the
\* output, and never beyond the limit.
IterationAsClaimed ==
    /\ pos > 0
    /\ Len(matching_lines) < RequestedLimit
    /\ pos' = (IF pos > chunk_size THEN pos - chunk_size ELSE 0)
    /\ pos' < pos
    /\ pos' >= 0
    /\ ReadChunk(fs[f].data, pos) = SubSeq(fs[f].data, pos' + 1, pos)
    /\ Len(matching_lines') <= RequestedLimit
    /\ Len(matching_lines') >= Len(matching_lines)
    /\ SubSeq(matching_lines', 1, Len(matching_lines)) = matching_lines

\* C19: the scan terminates and stops as early as it can.  In the loop the
\* cursor lies between 0 and the file's length; every iteration is as the
\* claim says (the cursor strictly decreases and stays at 0 or above, which
\* bounds the iterations of a scan by the file's length); and the return
\* reads nothing and appends nothing: it hands out the output as it stands.
C19_ScanTerminatesEarly ==
    /\ [](pc = "loop" => (pos >= 0 /\ pos <= Len(fs[f].data)))
    /\ [][LoopIterated => IterationAsClaimed]_vars
    /\ [][(pc = "loop" /\ pc' = "returned")
          => (pos' = pos /\ result' = Some(matching_lines))]_vars

\* C19's case: a scan of three windows at least stopped at the limit after
\* its second iteration or later, with the cursor still above 0: the rest
\* of the file was not read.
C19_Witness ==
    /\ pc = "returned"
    /\ caller = "direct"
    /\ pos > 0
    /\ pos + chunk_size < Len(ScanData)
    /\ Len(Val(result)) = RequestedLimit

\* C20: a file is open only while the scan loop of a call runs.  At every
\* exit of read_log_file (the return at pos = 0, the return at the limit, an
\* exception of a read or of the line handling) the file is closed, and on
\* the exits before the open (path violation, file not found, a failed
\* open) none was opened.
C20_HandleClosedOnExit ==
    f # "" => (pc = "loop" /\ engine_calls > 0)

\* C20's case: a read failed in the middle of a scan, after an iteration
\* that collected a line, and the call ended by the exception with its file
\* closed.
C20_Witness ==
    /\ pc = "raised"
    /\ exc.type = "OSError"
    /\ matching_lines # <<>>
    /\ pos > 0
    /\ f = ""

\* A seek or read failed in the middle of a scan, after at least one line
\* had been collected, and the call is over.
ReadFailedMidScan ==
    /\ exc \in ReadErrors
    /\ matching_lines # <<>>
    /\ pc \in {"raised", "responded"}

\* C21: when a seek or read fails in the middle of a scan, lines already
\* collected, read_log_file ends with the error raised and no list returned,
\* neither a partial nor an empty one, and a gateway that made the call
\* answers 500 with a JSON body {"error": message}, not 200.
C21_ReadErrorPropagated ==
    ReadFailedMidScan
    => /\ result = None
       /\ (caller = "http" /\ pc = "responded")
          => /\ response.status = 500
             /\ response.content_type = "application/json"
             /\ DOMAIN response.body = {"error"}

\* A GET /logs request has been answered 200.
SuccessSent == LogsRequest /\ pc = "responded" /\ response.status = 200

\* What read_log_file gives for the parameters of the request: the file
\* name, the lines parameter through int(), the filter.
EngineResultForRequest ==
    LET params == ParseQs(request.query)
    IN  ReadAlone(fs, Val(params.filename), LinesParam(params), params.filter)

\* C22: a 200 answer to GET /logs is sent only after read_log_file was
\* called and returned without raising, and its JSON body carries that
\* result unchanged: `entries` is the list returned, the list the engine
\* gives for the request's parameters, in the same most-recent-first order;
\* `total_entries` is the length of `entries`; `filename` is the file name
\* of the request.
C22_SuccessCarriesResult ==
    SuccessSent
    => /\ engine_calls > 0
       /\ result # None
       /\ exc = NoExc
       /\ response.content_type = "application/json"
       /\ DOMAIN response.body = {"filename", "total_entries", "entries"}
       /\ response.body.entries = Val(result)
       /\ Some(response.body.entries) = EngineResultForRequest.result
       /\ response.body.total_entries = Len(response.body.entries)
       /\ response.body.filename = Val(request.query.filename)

\* C22's case: a request for two lines of the log file was answered 200
\* with two different lines, the more recent one first.
C22_Witness ==
    /\ SuccessSent
    /\ request.query.filename = Some("f.log")
    /\ request.query.lines = Some("2")
    /\ response.body.total_entries = 2
    /\ response.body.entries = <<"A", "a">>

====
